---- MODULE Spec2Model ----
(***************************************************************************)
(* A model of the vantage-point tree VpAvl of                              *)
(* src/src/datastructure/nearest_neighbours_kd_tree.rs: the flat storage   *)
(* (data, nodes), bulk build, incremental insertion with height-triggered  *)
(* rebuild, removal, update_metric and the best-first nearest iterator.    *)
(*                                                                         *)
(* Vec<T> is a function over 0..len-1, so that node and storage indices    *)
(* are the source's. Option<usize> is an index or None (-1). An f64 is an  *)
(* integer number of ticks: one tick is 1/(32 * 2^HalfBits), which makes   *)
(* every distance of the modelled point set and every radius the model     *)
(* lets the tree compute exact, as they are in f64.                        *)
(***************************************************************************)
EXTENDS Integers, Sequences, FiniteSets, TLC

\* ------------------------------------------------------------------ bounds

\* Largest number of stored elements (and largest bulk_insert batch).
MaxSize == 4

\* Number of exact halvings of a radius below 1/32 that a tick resolves.
HalfBits == 1

\* Largest number of elements of a tree grown by insert alone.
MaxDeep == 7

\* Largest state of the one-dimensional space motions are checked in.
MaxPos == 4

\* Largest number of motion checks between two resets of the counters.
MaxCalls == 3

\* ------------------------------------------------------------- Option, Vec

None == -1

EmptyVec == [i \in {} |-> None]

VecLen(v) == Cardinality(DOMAIN v)

VecPush(v, x) == [i \in 0..VecLen(v) |-> IF i < VecLen(v) THEN v[i] ELSE x]

VecPop(v) == [i \in 0..(VecLen(v) - 2) |-> v[i]]

\* The smaller of two in place of the larger.
MinOf(a, b) == IF a <= b THEN a ELSE b

MaxOf(a, b) == IF a >= b THEN a ELSE b

\* A clamp with the upper bound only.
ClampUpper(x, lo, hi) == IF x > hi THEN hi ELSE x

\* f64::clamp(self, min, max), for min <= max
Clamp(x, lo, hi) == IF x < lo THEN lo ELSE IF x > hi THEN hi ELSE x

\* --------------------------------------------------------- points, metrics

\* Locations: 2-D points Vec<f64>.
Points == {<<0, 0>>, <<6, 0>>, <<3, 4>>}

\* Stored elements: Vec<f64> itself, whose location is the vector.
Elements == Points

\* VpTreeObject::location (impl VpTreeObject for Vec<f64>)
Location(e) == e

\* The metrics a tree is built with: EuclideanMetric, and
\* WeightedEuclideanMetric with weights [1.0, 2025/1024].
Metrics == {"euclidean", "weighted"}

\* The weights of WeightedEuclideanMetric, as numerators over 1024.
Weights1024 == <<1024, 2025>>

Ticks == 2 ^ HalfBits

\* f64::sqrt on the perfect squares the point set produces
Sqrt(n) == CHOOSE r \in 0..256 : r * r = n

\* EuclideanMetric::distance, in ticks
EuclideanDistance(p1, p2) ==
    32 * Ticks * Sqrt((p1[1] - p2[1]) * (p1[1] - p2[1])
                        + (p1[2] - p2[2]) * (p1[2] - p2[2]))

\* WeightedEuclideanMetric::distance, in ticks
WeightedDistance(p1, p2) ==
    Ticks * Sqrt(Weights1024[1] * (p1[1] - p2[1]) * (p1[1] - p2[1])
                   + Weights1024[2] * (p1[2] - p2[2]) * (p1[2] - p2[2]))

\* The distances, computed once.
DistTable ==
    [m \in Metrics |-> [p1 \in Points |-> [p2 \in Points |->
        IF m = "euclidean" THEN EuclideanDistance(p1, p2)
                           ELSE WeightedDistance(p1, p2)]]]

\* Metric::distance
Distance(m, p1, p2) == DistTable[m][p1][p2]

\* ------------------------------------------------------------------- nodes

\* A leaf that records no parent.
NewLeafOrphan(center, parent) ==
    [height |-> 0, center |-> center, radius |-> 0, parent |-> None,
     interior |-> None, exterior |-> None]

\* Node::new_leaf
NewLeaf(center, parent) ==
    [height |-> 0, center |-> center, radius |-> 0, parent |-> parent,
     interior |-> None, exterior |-> None]

\* VpAvl::node_index_data
NodeIndexData(t, node_index) == t.data[t.nodes[node_index].center]

\* ------------------------------------------------------------- bulk build

\* The least second component (a distance) among a non-empty set of pairs.
MinDistanceOf(S) == CHOOSE d \in {x[2] : x \in S} : \A y \in S : d <= y[2]

\* The sort left out: every order of the (index, distance) pairs.
RECURSIVE AnyOrder(_)
AnyOrder(S) ==
    IF S = {} THEN {<<>>}
    ELSE UNION { { <<x>> \o rest : rest \in AnyOrder(S \ {x}) } : x \in S }

\* distances.sort_unstable_by(|a, b| a.1.partial_cmp(&b.1)): every order of
\* the (index, distance) pairs that is ascending in distance; the order of
\* equal distances is not specified by an unstable sort.
RECURSIVE SortUnstableBy(_)
SortUnstableBy(S) ==
    IF S = {} THEN {<<>>}
    ELSE UNION { { <<x>> \o rest : rest \in SortUnstableBy(S \ {x}) } :
                 x \in {y \in S : y[2] = MinDistanceOf(S)} }

\* A chunk size that gives the extra element of an odd count to the second
\* chunk.
ChunkSizeFloor(len) == len \div 2

\* distances.chunks(len / 2 + len % 2): the chunk size
ChunkSize(len) == (len \div 2) + (len % 2)

\* Vec::pop on a local vector of indices: the vector without its last entry
Front(s) == SubSeq(s, 1, Len(s) - 1)

\* A one-index case that links the remaining index on both sides.
BulkOneChildBothSides(t, root, exterior) ==
    [t EXCEPT !.nodes[root].exterior = exterior,
              !.nodes[root].radius =
                  Distance(t.metric, Location(NodeIndexData(t, root)),
                           Location(NodeIndexData(t, exterior))),
              !.nodes[root].height = 1,
              !.nodes[root].interior = exterior,
              !.nodes[exterior].parent = root]

\* bulk_build_indices with one remaining index, before it recurses into the
\* child (lines 99-107): the index becomes the exterior child, the node's
\* radius the distance to it.
BulkOneChild(t, root, exterior) ==
    [t EXCEPT !.nodes[root].exterior = exterior,
              !.nodes[root].radius =
                  Distance(t.metric, Location(NodeIndexData(t, root)),
                           Location(NodeIndexData(t, exterior))),
              !.nodes[root].height = 1,
              !.nodes[root].interior = None,
              !.nodes[exterior].parent = root]

\* VpAvl::bulk_build_indices: the trees it can leave (one per order of the
\* unstable sort), t.nodes rebuilt below `root` over `indices`.
RECURSIVE BulkBuildIndices(_, _, _)
RECURSIVE BulkBuildPartition(_, _, _)
BulkBuildIndices(t, root, indices) ==
    IF Len(indices) = 0 THEN
        { [t EXCEPT !.nodes[root].height = 0,
                    !.nodes[root].interior = None,
                    !.nodes[root].exterior = None] }
    ELSE IF Len(indices) = 1 THEN
        LET exterior == indices[Len(indices)]
            t1 == BulkOneChild(t, root, exterior)
        IN  BulkBuildIndices(t1, t1.nodes[root].exterior, Front(indices))
    ELSE
        LET distances ==
                { <<indices[i],
                    Distance(t.metric, Location(NodeIndexData(t, root)),
                             Location(NodeIndexData(t, indices[i])))>> :
                  i \in 1..Len(indices) }
        IN  UNION { BulkBuildPartition(t, root, sorted) :
                    sorted \in SortUnstableBy(distances) }

\* bulk_build_indices after the sort (lines 130-166): split, set the radius
\* and the two children, recurse, cache the height.
BulkBuildPartition(t, root, distances) ==
    LET k == ChunkSize(Len(distances))
        partition0 == SubSeq(distances, 1, k)
        partition1 == SubSeq(distances, k + 1, Len(distances))
        interior_all == [i \in 1..Len(partition0) |-> partition0[i][1]]
        exterior_all == [i \in 1..Len(partition1) |-> partition1[i][1]]
        min_exterior_distance == partition1[1][2]
        interior_center == interior_all[Len(interior_all)]
        exterior_center == exterior_all[Len(exterior_all)]
        t1 == [t EXCEPT !.nodes[root].radius = min_exterior_distance,
                        !.nodes[root].interior = interior_center,
                        !.nodes[root].exterior = exterior_center,
                        !.nodes[interior_center].parent = root,
                        !.nodes[exterior_center].parent = root]
    IN  UNION { { [t3 EXCEPT !.nodes[root].height =
                       MaxOf(MaxOf(0, t2.nodes[interior_center].height),
                             t3.nodes[exterior_center].height) + 1] :
                  t3 \in BulkBuildIndices(t2, exterior_center,
                                          Front(exterior_all)) } :
                t2 \in BulkBuildIndices(t1, interior_center,
                                        Front(interior_all)) }

\* VpAvl::new
New(metric0) ==
    [root |-> 0, nodes |-> EmptyVec, data |-> EmptyVec, metric |-> metric0]

\* VpAvl::bulk_insert, for a non-empty batch (a Vec, indices from 0)
BulkInsert(metric0, data0) ==
    LET indices == [i \in 1..(VecLen(data0) - 1) |-> i]
        rv == [root |-> 0,
               nodes |-> [ind \in DOMAIN data0 |-> NewLeaf(ind, None)],
               data |-> data0,
               metric |-> metric0]
    IN  BulkBuildIndices(rv, 0, indices)

\* bulk_insert indexes self.nodes[0] whatever the batch: an empty batch is
\* an out-of-bounds index.
BulkInsertPanics(data0) == VecLen(data0) = 0

\* ---------------------------------------------------------------- insertion

\* set_height with the interior child's own height taken for the height the
\* child gives its parent (the + 1 forgotten).
SetHeightNoPlusOne(t, root) ==
    LET interior_height ==
            IF t.nodes[root].interior # None
            THEN t.nodes[t.nodes[root].interior].height ELSE 0
        exterior_height ==
            IF t.nodes[root].exterior # None
            THEN t.nodes[t.nodes[root].exterior].height + 1 ELSE 0
    IN  [t EXCEPT !.nodes[root].height = MaxOf(interior_height, exterior_height)]

\* VpAvl::set_height
SetHeight(t, root) ==
    LET interior_height ==
            IF t.nodes[root].interior # None
            THEN t.nodes[t.nodes[root].interior].height + 1 ELSE 0
        exterior_height ==
            IF t.nodes[root].exterior # None
            THEN t.nodes[t.nodes[root].exterior].height + 1 ELSE 0
    IN  [t EXCEPT !.nodes[root].height = MaxOf(interior_height, exterior_height)]

\* VpAvl::child_indices: the subtree's node indices in post-order
RECURSIVE ChildIndices(_, _)
ChildIndices(t, root) ==
    (IF t.nodes[root].interior # None
     THEN ChildIndices(t, t.nodes[root].interior) ELSE <<>>)
    \o (IF t.nodes[root].exterior # None
        THEN ChildIndices(t, t.nodes[root].exterior) ELSE <<>>)
    \o <<root>>

\* A rebuild that also reverses the order of the stored elements.
RebalanceReversingData(t, root) ==
    LET children == ChildIndices(t, root)
    IN  { [b EXCEPT !.data = [i \in DOMAIN b.data |->
                                  b.data[(VecLen(b.data) - 1) - i]]] :
          b \in BulkBuildIndices(t, children[Len(children)], Front(children)) }

\* A rebuild that starts over from the tree's root in place of the node
\* rebalance was called at.
RebuildFromTreeRoot(t, root) ==
    LET children == ChildIndices(t, t.root)
    IN  BulkBuildIndices(t, children[Len(children)], Front(children))

\* VpAvl::rebalance_interior
RebalanceInterior(t, root) ==
    LET children == ChildIndices(t, root)
    IN  BulkBuildIndices(t, children[Len(children)], Front(children))

\* VpAvl::rebalance_exterior
RebalanceExterior(t, root) ==
    LET children == ChildIndices(t, root)
    IN  BulkBuildIndices(t, children[Len(children)], Front(children))

\* A rebalance that never rebuilds.
RebalanceNever(t, root) == {t}

\* VpAvl::rebalance
Rebalance(t, root) ==
    LET interior_height ==
            IF t.nodes[root].interior # None
            THEN t.nodes[t.nodes[root].interior].height ELSE 0
        exterior_height ==
            IF t.nodes[root].exterior # None
            THEN t.nodes[t.nodes[root].exterior].height ELSE 0
    IN  IF interior_height > exterior_height + 1 THEN RebalanceInterior(t, root)
        ELSE IF exterior_height > interior_height + 1
             THEN RebalanceExterior(t, root)
        ELSE {t}

\* A halving that leaves its argument whole.
NotHalved(x) == x

\* root_radius / 2.0
Half(x) == x \div 2

\* insert_root, "new leaf node": push the value and its leaf, set the leaf's
\* radius; the caller links it as interior or exterior child.
PushLeaf(t, root, value, distance) ==
    LET new_index == VecLen(t.data)
        root_radius == t.nodes[root].radius
    IN  [t EXCEPT !.data = VecPush(t.data, value),
                  !.nodes = VecPush(t.nodes,
                      [NewLeaf(new_index, root) EXCEPT
                          !.radius = Clamp(distance, Half(root_radius),
                                           root_radius)])]

\* VpAvl::insert_root
RECURSIVE InsertRoot(_, _, _)
InsertRoot(t, root, value) ==
    LET distance ==
            Distance(t.metric,
                     Location(NodeIndexData(t, t.nodes[root].center)),
                     Location(value))
        root_radius == t.nodes[root].radius
        new_index == VecLen(t.data)
        inserted ==
            IF distance < root_radius THEN
                IF t.nodes[root].interior # None
                THEN InsertRoot(t, t.nodes[root].interior, value)
                ELSE { [PushLeaf(t, root, value, distance) EXCEPT
                           !.nodes[root].interior = new_index] }
            ELSE IF t.nodes[root].exterior # None
                THEN InsertRoot(t, t.nodes[root].exterior, value)
            ELSE { [PushLeaf(t, root, value, distance) EXCEPT
                       !.nodes[root].exterior = new_index] }
    IN  UNION { Rebalance(SetHeight(t2, root), root) : t2 \in inserted }

\* VpAvl::insert
Insert(t, value) ==
    IF VecLen(t.data) > 1 THEN InsertRoot(t, t.root, value)
    ELSE IF VecLen(t.data) = 0 THEN
        { [t EXCEPT !.data = VecPush(t.data, value),
                    !.nodes = VecPush(t.nodes, NewLeaf(0, None))] }
    ELSE
        LET root_dist ==
                Distance(t.metric,
                         Location(NodeIndexData(t, t.nodes[t.root].center)),
                         Location(value))
        IN  InsertRoot([t EXCEPT !.nodes[t.root].radius = Half(root_dist)],
                       t.root, value)

\* rebalance's test: one child's cached height exceeds the other's (0 for a
\* missing child) by more than 1, so that the subtree is rebuilt.
RebalanceRebuilds(t, root) ==
    LET interior_height ==
            IF t.nodes[root].interior # None
            THEN t.nodes[t.nodes[root].interior].height ELSE 0
        exterior_height ==
            IF t.nodes[root].exterior # None
            THEN t.nodes[t.nodes[root].exterior].height ELSE 0
    IN  \/ interior_height > exterior_height + 1
        \/ exterior_height > interior_height + 1

\* The rebalance calls insert_root(root, value) makes, its own and those of
\* the calls it recurses into: for each, the tree it is called on (before),
\* the node it is called at and a tree it leaves (after).
RECURSIVE InsertRootSteps(_, _, _)
InsertRootSteps(t, root, value) ==
    LET distance ==
            Distance(t.metric,
                     Location(NodeIndexData(t, t.nodes[root].center)),
                     Location(value))
        new_index == VecLen(t.data)
        interior_side == distance < t.nodes[root].radius
        child == IF interior_side THEN t.nodes[root].interior
                 ELSE t.nodes[root].exterior
        attached == IF interior_side
                    THEN [PushLeaf(t, root, value, distance) EXCEPT
                             !.nodes[root].interior = new_index]
                    ELSE [PushLeaf(t, root, value, distance) EXCEPT
                             !.nodes[root].exterior = new_index]
        inserted == IF child # None THEN InsertRoot(t, child, value)
                    ELSE {attached}
        below == IF child # None THEN InsertRootSteps(t, child, value) ELSE {}
    IN  below \cup
        UNION { { [before |-> SetHeight(t2, root), node |-> root, after |-> a,
                   attaches |-> child = None] :
                  a \in Rebalance(SetHeight(t2, root), root) } :
                t2 \in inserted }

\* The rebalance calls of insert(value).
InsertSteps(t, value) ==
    IF VecLen(t.data) > 1 THEN InsertRootSteps(t, t.root, value)
    ELSE IF VecLen(t.data) = 0 THEN {}
    ELSE
        LET root_dist ==
                Distance(t.metric,
                         Location(NodeIndexData(t, t.nodes[t.root].center)),
                         Location(value))
        IN  InsertRootSteps([t EXCEPT !.nodes[t.root].radius = Half(root_dist)],
                            t.root, value)

\* A node other than the root at which insert(value) has rebalance rebuild
\* the subtree, None when it rebuilds none below the root.
RebuiltBelowRoot(t, value) ==
    LET rebuilt == {s.node : s \in {x \in InsertSteps(t, value) :
                                        /\ RebalanceRebuilds(x.before, x.node)
                                        /\ x.node # t.root}}
    IN  IF rebuilt = {} THEN None ELSE CHOOSE n \in rebuilt : TRUE

\* The node under which insert_root attaches the new leaf.
RECURSIVE AttachParent(_, _, _)
AttachParent(t, root, value) ==
    LET distance ==
            Distance(t.metric,
                     Location(NodeIndexData(t, t.nodes[root].center)),
                     Location(value))
        next == IF distance < t.nodes[root].radius
                THEN t.nodes[root].interior ELSE t.nodes[root].exterior
    IN  IF next = None THEN root ELSE AttachParent(t, next, value)

\* Whether this insert's radii are exact in ticks, as they are in f64: the
\* root's radius root_dist / 2.0 (second insert), and the new leaf's radius
\* when the clamp returns root_radius / 2.0. The model follows an insert
\* only when they are.
InsertIsExact(t, value) ==
    IF VecLen(t.data) = 0 THEN TRUE
    ELSE IF VecLen(t.data) = 1 THEN
        Distance(t.metric, Location(NodeIndexData(t, t.root)),
                 Location(value)) % 2 = 0
    ELSE
        LET parent == AttachParent(t, t.root, value)
            distance == Distance(t.metric, Location(NodeIndexData(t, parent)),
                                 Location(value))
        IN  t.nodes[parent].radius % 2 = 0
            \/ 2 * distance > t.nodes[parent].radius

\* ------------------------------------------------------- nearest iterator

\* No item: the iterator's next() returned None.
NoItem == <<>>

\* BinaryHeap<NodeProspect>::peek, the heap being the sequence of its
\* entries: the greatest entry under NodeProspect's reversed order is one of
\* least min_distance.
HeapPeekDistance(heap) ==
    CHOOSE d \in {heap[i].min_distance : i \in 1..Len(heap)} :
        \A j \in 1..Len(heap) : d <= heap[j].min_distance

\* pop that takes any entry of the heap, not one of least min_distance.
HeapPopAny(heap) ==
    { [top |-> heap[i],
       rest |-> SubSeq(heap, 1, i - 1) \o SubSeq(heap, i + 1, Len(heap))] :
      i \in 1..Len(heap) }

\* BinaryHeap::pop on a non-empty heap: an entry of least min_distance and
\* the heap without it. Which of several equal entries comes first is the
\* heap's business: each can.
HeapPop(heap) ==
    { [top |-> heap[i],
       rest |-> SubSeq(heap, 1, i - 1) \o SubSeq(heap, i + 1, Len(heap))] :
      i \in {j \in 1..Len(heap) : heap[j].min_distance = HeapPeekDistance(heap)} }

\* push that leaves the new entry alone in the heap.
HeapPushAlone(heap, entry) == <<entry>>

\* push that enters the entry twice.
HeapPushTwice(heap, entry) == Append(Append(heap, entry), entry)

\* BinaryHeap::push
HeapPush(heap, entry) == Append(heap, entry)

\* An iterator that starts with the root entered twice.
KnnNewRootTwice(t, query_point) ==
    [query_point |-> query_point,
     prospects |-> IF VecLen(t.nodes) # 0
                   THEN <<[index |-> t.root, min_distance |-> 0],
                          [index |-> t.root, min_distance |-> 0]>>
                   ELSE <<>>,
     yield_queue |-> <<>>]

\* KnnIterator::new, KnnMutIterator::new, KnnIndexIterator::new
KnnNew(t, query_point) ==
    [query_point |-> query_point,
     prospects |-> IF VecLen(t.nodes) # 0
                   THEN <<[index |-> t.root, min_distance |-> 0]>> ELSE <<>>,
     yield_queue |-> <<>>]

\* The interior bound taken to be the distance to the center itself (the
\* radius not subtracted).
MinInteriorDistanceToCenter(center_dist, radius) == MaxOf(center_dist, 0)

\* diff.max(0.0), diff = center_dist - radius: the interior child's bound
MinInteriorDistance(center_dist, radius) == MaxOf(center_dist - radius, 0)

\* The exterior bound with diff's sign kept (diff.max(0.0) for both children).
MinExteriorDistanceSameSign(center_dist, radius) ==
    MaxOf(center_dist - radius, 0)

\* (-diff).max(0.0): the exterior child's bound
MinExteriorDistance(center_dist, radius) ==
    MaxOf(0 - (center_dist - radius), 0)

\* yield_now without the comparison: an item is yielded whenever both
\* heaps hold an entry.
YieldNowUncompared(yield_queue, prospects) ==
    /\ Len(yield_queue) > 0
    /\ Len(prospects) > 0

\* yield_now: both heaps hold an entry and the best yield_queue entry is no
\* farther than the best prospect's bound
YieldNow(yield_queue, prospects) ==
    /\ Len(yield_queue) > 0
    /\ Len(prospects) > 0
    /\ HeapPeekDistance(yield_queue) <= HeapPeekDistance(prospects)

\* next() of the three iterators, which differ only in the item they build
\* from the popped entry: the outcomes [it, entry, path], entry the popped
\* yield_queue entry (NoItem at the end) and path the branch that returned.
RECURSIVE KnnNext(_, _)
KnnNext(t, it) ==
    IF Len(it.prospects) = 0 THEN
        IF Len(it.yield_queue) = 0
        THEN { [it |-> it, entry |-> NoItem, path |-> "end"] }
        ELSE { [it |-> [it EXCEPT !.yield_queue = p.rest],
                entry |-> p.top, path |-> "drain"] :
               p \in HeapPop(it.yield_queue) }
    ELSE UNION {
        LET top_choice == popped.top
            node == t.nodes[top_choice.index]
            center_dist ==
                Distance(t.metric, it.query_point,
                         Location(NodeIndexData(t, node.center)))
            yield_queue1 ==
                HeapPush(it.yield_queue,
                         [index |-> top_choice.index,
                          min_distance |-> center_dist])
            min_interior_distance == MinInteriorDistance(center_dist, node.radius)
            min_exterior_distance == MinExteriorDistance(center_dist, node.radius)
            prospects1 ==
                IF node.interior # None
                THEN HeapPush(popped.rest,
                              [index |-> node.interior,
                               min_distance |-> min_interior_distance])
                ELSE popped.rest
            prospects2 ==
                IF node.exterior # None
                THEN HeapPush(prospects1,
                              [index |-> node.exterior,
                               min_distance |-> min_exterior_distance])
                ELSE prospects1
            yield_now == YieldNow(yield_queue1, prospects2)
        IN  IF yield_now THEN
                { [it |-> [it EXCEPT !.prospects = prospects2,
                                     !.yield_queue = yv.rest],
                   entry |-> yv.top, path |-> "yield"] :
                  yv \in HeapPop(yield_queue1) }
            ELSE KnnNext(t, [it EXCEPT !.prospects = prospects2,
                                       !.yield_queue = yield_queue1])
        : popped \in HeapPop(it.prospects) }

\* KnnIndexIterator's item: (index, distance)
IndexItem(o) == <<o.entry.index, o.entry.min_distance>>

\* KnnIterator's item: (&data[..], distance); the drain path indexes data by
\* the entry's index, the yield path by that node's center.
RefItem(t, o) ==
    IF o.path = "drain" THEN <<t.data[o.entry.index], o.entry.min_distance>>
    ELSE <<t.data[t.nodes[o.entry.index].center], o.entry.min_distance>>

\* A by-reference slot that, on the yield path, reads the center of the
\* tree's root in place of the yielded node's.
RefSlotOfRoot(t, o) ==
    IF o.path = "drain" THEN o.entry.index ELSE t.nodes[t.root].center

\* KnnIterator's item as (storage index, distance): the slot of data its
\* reference points into, data[p.index] on the drain path (line 722) and
\* data[nodes[yv.index].center] on the yield path (line 776).
RefSlot(t, o) ==
    IF o.path = "drain" THEN o.entry.index ELSE t.nodes[o.entry.index].center

\* KnnMutIterator's item as (storage index, distance): data[p.index] on the
\* drain path (line 829) and data[yv.index] on the yield path (line 886).
MutSlot(t, o) == o.entry.index

\* ------------------------------------------------------------------ removal

\* take_while(|nn| nn.1 <= 0.0): the item is still taken
TakeWhileZero(min_distance) == min_distance <= 0

\* A search that settles on the last storage index whatever is stored there.
FindLastIndex(t, it, value) == {VecLen(t.data) - 1}

\* remove's search: nn_index_iter(value).take_while(|nn| nn.1 <= 0.0)
\*     .find(|nn| data[nn.0].location() == value)
\* The indices it can find, None when the search ends without a match.
RECURSIVE FindToRemove(_, _, _)
FindToRemove(t, it, value) ==
    UNION { IF o.path = "end" THEN {None}
            ELSE IF ~TakeWhileZero(o.entry.min_distance) THEN {None}
            ELSE IF Location(t.data[o.entry.index]) = value
                 THEN {o.entry.index}
            ELSE FindToRemove(t, o.it, value)
          : o \in KnnNext(t, it) }

\* remove_index that pops the last element and forgets to put it in the
\* removed element's slot.
RemoveIndexEndDropped(t, index) ==
    LET data1 == VecPop(t.data)
        t1 == [t EXCEPT !.data = data1, !.nodes = VecPop(t.nodes)]
        indices == [i \in 1..(VecLen(data1) - 1) |-> i]
    IN  IF Len(indices) # 0
        THEN { [tree |-> t2, old |-> t.data[index]] :
               t2 \in BulkBuildIndices(t1, 0, indices) }
        ELSE IF VecLen(data1) = 1
        THEN { [tree |-> [t1 EXCEPT !.nodes[0] = NewLeaf(0, None)],
                old |-> t.data[index]] }
        ELSE { [tree |-> t1, old |-> t.data[index]] }

\* remove_index with Vec::remove in place of the swap with the last
\* element: the elements after the removed one move down by one.
RemoveIndexShifting(t, index) ==
    LET data2 == [i \in 0..(VecLen(t.data) - 2) |->
                     IF i < index THEN t.data[i] ELSE t.data[i + 1]]
        t1 == [t EXCEPT !.data = data2, !.nodes = VecPop(t.nodes)]
        indices == [i \in 1..(VecLen(data2) - 1) |-> i]
    IN  IF Len(indices) # 0
        THEN { [tree |-> t2, old |-> t.data[index]] :
               t2 \in BulkBuildIndices(t1, 0, indices) }
        ELSE IF VecLen(data2) = 1
        THEN { [tree |-> [t1 EXCEPT !.nodes[0] = NewLeaf(0, None)],
                old |-> t.data[index]] }
        ELSE { [tree |-> t1, old |-> t.data[index]] }

\* remove_index that pops the element and leaves the node array as long as
\* it was (self.nodes.pop() forgotten).
RemoveIndexNodesKept(t, index) ==
    LET last == VecLen(t.data) - 1
        end == t.data[last]
        data1 == VecPop(t.data)
        old == IF index = VecLen(data1) THEN end ELSE t.data[index]
        data2 == IF index = VecLen(data1) THEN data1
                 ELSE [data1 EXCEPT ![index] = end]
        t1 == [t EXCEPT !.data = data2]
        indices == [i \in 1..(VecLen(data2) - 1) |-> i]
    IN  IF Len(indices) # 0
        THEN { [tree |-> t2, old |-> old] : t2 \in BulkBuildIndices(t1, 0, indices) }
        ELSE IF VecLen(data2) = 1
        THEN { [tree |-> [t1 EXCEPT !.nodes[0] = NewLeaf(0, None)], old |-> old] }
        ELSE { [tree |-> t1, old |-> old] }

\* remove_index without the reset of node 0 when one element is left.
RemoveIndexNoReset(t, index) ==
    LET last == VecLen(t.data) - 1
        end == t.data[last]
        data1 == VecPop(t.data)
        nodes1 == VecPop(t.nodes)
        old == IF index = VecLen(data1) THEN end ELSE t.data[index]
        data2 == IF index = VecLen(data1) THEN data1
                 ELSE [data1 EXCEPT ![index] = end]
        t1 == [t EXCEPT !.data = data2, !.nodes = nodes1]
        indices == [i \in 1..(VecLen(data2) - 1) |-> i]
    IN  IF Len(indices) # 0
        THEN { [tree |-> t2, old |-> old] : t2 \in BulkBuildIndices(t1, 0, indices) }
        ELSE { [tree |-> t1, old |-> old] }

\* VpAvl::remove_index: the outcomes [tree, old]
RemoveIndex(t, index) ==
    LET last == VecLen(t.data) - 1
        end == t.data[last]
        data1 == VecPop(t.data)
        nodes1 == VecPop(t.nodes)
        old == IF index = VecLen(data1) THEN end ELSE t.data[index]
        data2 == IF index = VecLen(data1) THEN data1
                 ELSE [data1 EXCEPT ![index] = end]
        t1 == [t EXCEPT !.data = data2, !.nodes = nodes1]
        indices == [i \in 1..(VecLen(data2) - 1) |-> i]
    IN  IF Len(indices) # 0
        THEN { [tree |-> t2, old |-> old] : t2 \in BulkBuildIndices(t1, 0, indices) }
        ELSE IF VecLen(data2) = 1
        THEN { [tree |-> [t1 EXCEPT !.nodes[0] = NewLeaf(0, None)], old |-> old] }
        ELSE { [tree |-> t1, old |-> old] }

\* VpAvl::remove: the outcomes [tree, status, ret, index], ret the Option
\* returned; to_remove.unwrap() panics when the search found nothing (status
\* "panic", the tree as it was).
Remove(t, value) ==
    UNION { IF to_remove = None
            THEN { [tree |-> t, status |-> "panic", ret |-> <<>>,
                    index |-> None] }
            ELSE { [tree |-> r.tree, status |-> "ok", ret |-> <<r.old>>,
                    index |-> to_remove] :
                   r \in RemoveIndex(t, to_remove) }
          : to_remove \in FindToRemove(t, KnnNew(t, value), value) }

\* VpAvl::update_metric, on a non-empty tree
UpdateMetric(t, metric0) == BulkInsert(metric0, t.data)

\* VpAvl::size
Size(t) == VecLen(t.data)

\* A Vec as the sequence of its entries, first to last.
VecSeq(v) == [i \in 1..VecLen(v) |-> v[i - 1]]

\* VpAvl::iter: self.data.iter(), the elements in storage order
Iter(t) == VecSeq(t.data)

\* ------------------------------------------------- discrete motion validator
\* DiscreteMotionValidator over a one-dimensional RealVectorStateSpace whose
\* states are the integers 0..MaxPos, and a StateValidityChecker that is the
\* set of the valid states.

\* The states of the space.
States == 0..MaxPos

\* StateSpaceCommonData::longest_valid_segment_count_factor, as new sets it
longest_valid_segment_count_factor == 1

\* StateSpaceCommonData::longest_valid_segment, a public field: its initial
\* 0.0 gives every motion between distinct states u32::MAX segments; the
\* space modelled has it set to 1.0, one segment per unit of distance.
longest_valid_segment == 1

\* RealVectorStateSpace::distance: the norm of the difference
StateDistance(state1, state2) ==
    IF state1 >= state2 THEN state1 - state2 ELSE state2 - state1

\* (x / y).ceil() as u32, for x >= 0 and y > 0
CeilDiv(x, y) == (x + y - 1) \div y

\* StateSpace::valid_segment_count
ValidSegmentCount(state1, state2) ==
    longest_valid_segment_count_factor
        * CeilDiv(StateDistance(state1, state2), longest_valid_segment)

RECURSIVE Gcd(_, _)
Gcd(a, b) == IF b = 0 THEN a ELSE Gcd(b, a % b)

\* a as f64 / b as f64, b > 0: the quotient, kept as the fraction in lowest
\* terms <<numerator, denominator>> (equal quotients are equal f64 values).
F64Div(a, b) == <<a \div Gcd(a, b), b \div Gcd(a, b)>>

\* RealVectorStateSpace::interpolate: from + (to - from) * t, the state
\* written to the output slot
Interpolate(from, to, t) == from + ((to - from) * t[1]) \div t[2]

\* StateValidityChecker::is_valid
IsValid(checker0, state) == state \in checker0

\* MotionCheckStats::default
DefaultStats == [valid |-> 0, invalid |-> 0]

\* MotionCheckStats::checked_motion_count
CheckedMotionCount(stats0) == stats0.valid + stats0.invalid

\* The counters with the valid one incremented whatever the result.
CountAsValid(stats0, result) == [stats0 EXCEPT !.valid = @ + 1]

\* if result { stats.valid += 1 } else { stats.invalid += 1 }
CountMotion(stats0, result) ==
    IF result THEN [stats0 EXCEPT !.valid = @ + 1]
    ELSE [stats0 EXCEPT !.invalid = @ + 1]

\* check_motion's while loop over the VecDeque pos of (first, second) ranges
\* of sample indices: the result it leaves.
RECURSIVE Bisect(_, _, _, _, _)
Bisect(checker0, s1, s2, nd, pos) ==
    IF Len(pos) = 0 THEN TRUE
    ELSE
        LET first == pos[1][1]
            second == pos[1][2]
            mid == (first + second) \div 2
            test == Interpolate(s1, s2, F64Div(mid, nd))
            pos1 == Tail(pos)
            pos2 == IF first < mid THEN Append(pos1, <<first, mid - 1>>)
                    ELSE pos1
            pos3 == IF second > mid THEN Append(pos2, <<mid + 1, second>>)
                    ELSE pos2
        IN  IF ~IsValid(checker0, test) THEN FALSE
            ELSE Bisect(checker0, s1, s2, nd, pos3)

\* The sampling loop with a lower half that keeps its middle: (first, mid)
\* is queued in place of (first, mid - 1).
RECURSIVE BisectSamplesMidKept(_, _, _, _, _, _)
BisectSamplesMidKept(checker0, s1, s2, nd, pos, tested) ==
    IF Len(pos) = 0 THEN [result |-> TRUE, tested |-> tested]
    ELSE
        LET first == pos[1][1]
            second == pos[1][2]
            mid == (first + second) \div 2
            test == Interpolate(s1, s2, F64Div(mid, nd))
            pos1 == Tail(pos)
            pos2 == IF first < mid THEN Append(pos1, <<first, mid>>)
                    ELSE pos1
            pos3 == IF second > mid THEN Append(pos2, <<mid + 1, second>>)
                    ELSE pos2
        IN  IF ~IsValid(checker0, test)
            THEN [result |-> FALSE, tested |-> Append(tested, mid)]
            ELSE BisectSamplesMidKept(checker0, s1, s2, nd, pos3,
                                      Append(tested, mid))

\* check_motion's sampling loop (lines 47-64) with the sample indices it
\* tests, in order: [result, tested], `tested` the indices mid tested so far.
RECURSIVE BisectSamples(_, _, _, _, _, _)
BisectSamples(checker0, s1, s2, nd, pos, tested) ==
    IF Len(pos) = 0 THEN [result |-> TRUE, tested |-> tested]
    ELSE
        LET first == pos[1][1]
            second == pos[1][2]
            mid == (first + second) \div 2
            test == Interpolate(s1, s2, F64Div(mid, nd))
            pos1 == Tail(pos)
            pos2 == IF first < mid THEN Append(pos1, <<first, mid - 1>>)
                    ELSE pos1
            pos3 == IF second > mid THEN Append(pos2, <<mid + 1, second>>)
                    ELSE pos2
        IN  IF ~IsValid(checker0, test)
            THEN [result |-> FALSE, tested |-> Append(tested, mid)]
            ELSE BisectSamples(checker0, s1, s2, nd, pos3, Append(tested, mid))

\* check_motion as the steps it takes: whether the sampling loop was entered,
\* the sample indices tested in order, how often alloc_state and free_state
\* were called, and the result. The return of line 36 comes before any
\* allocation; the break of line 54 leaves the loop for the free_state of
\* line 66.
CheckMotionSteps(checker0, s1, s2) ==
    IF IsValid(checker0, s2)
    THEN [entered |-> FALSE, tested |-> <<>>, allocated |-> 0, freed |-> 0,
          result |-> FALSE]
    ELSE
        LET nd == ValidSegmentCount(s1, s2)
            loop == BisectSamples(checker0, s1, s2, nd, << <<1, nd - 1>> >>, <<>>)
        IN  IF nd >= 2
            THEN [entered |-> TRUE, tested |-> loop.tested, allocated |-> 1,
                  freed |-> 1, result |-> loop.result]
            ELSE [entered |-> FALSE, tested |-> <<>>, allocated |-> 0,
                  freed |-> 0, result |-> TRUE]

\* DiscreteMotionValidator::check_motion: [result, stats]
CheckMotion(checker0, stats0, s1, s2) ==
    IF IsValid(checker0, s2)
    THEN [result |-> FALSE, stats |-> [stats0 EXCEPT !.invalid = @ + 1]]
    ELSE
        LET nd == ValidSegmentCount(s1, s2)
            result == IF nd >= 2
                      THEN Bisect(checker0, s1, s2, nd, << <<1, nd - 1>> >>)
                      ELSE TRUE
        IN  [result |-> result, stats |-> CountMotion(stats0, result)]

\* The time with the invalid sample's own index (the - 1 forgotten).
LastValidTimeOfInvalid(j, nd) == F64Div(j, nd)

\* (j - 1) as f64 / nd as f64: the time of the sample before sample j
LastValidTime(j, nd) == F64Div(j - 1, nd)

\* last_valid.1 = time; if let Some(s) = &mut last_valid.0 { interpolate(s1,
\* s2, last_valid.1, s) }: the pair (Option<state>, time) left
SetLastValid(last_valid0, s1, s2, time) ==
    <<IF last_valid0[1] # None THEN Interpolate(s1, s2, time) ELSE None, time>>

\* The for loop with `result = false` left out where a sample is invalid.
RECURSIVE ForLoopResultKept(_, _, _, _, _, _)
ForLoopResultKept(checker0, s1, s2, nd, j, last_valid0) ==
    IF j >= nd THEN [result |-> TRUE, last_valid |-> last_valid0]
    ELSE IF ~IsValid(checker0, Interpolate(s1, s2, F64Div(j, nd)))
    THEN [result |-> TRUE,
          last_valid |-> SetLastValid(last_valid0, s1, s2, LastValidTime(j, nd))]
    ELSE ForLoopResultKept(checker0, s1, s2, nd, j + 1, last_valid0)

\* check_motion_with_last_valid's `for j in 1..nd`, from index j on: the
\* result and the last_valid it leaves
RECURSIVE ForLoop(_, _, _, _, _, _)
ForLoop(checker0, s1, s2, nd, j, last_valid0) ==
    IF j >= nd THEN [result |-> TRUE, last_valid |-> last_valid0]
    ELSE IF ~IsValid(checker0, Interpolate(s1, s2, F64Div(j, nd)))
    THEN [result |-> FALSE,
          last_valid |-> SetLastValid(last_valid0, s1, s2, LastValidTime(j, nd))]
    ELSE ForLoop(checker0, s1, s2, nd, j + 1, last_valid0)

\* DiscreteMotionValidator::check_motion_with_last_valid:
\* [result, stats, last_valid]. With s1 valid, as the function assumes, an
\* invalid s2 is not s1 and nd is at least 1 where nd - 1 is computed.
CheckMotionWithLastValid(checker0, stats0, s1, s2, last_valid0) ==
    LET nd == ValidSegmentCount(s1, s2)
        loop == IF nd > 1 THEN ForLoop(checker0, s1, s2, nd, 1, last_valid0)
                ELSE [result |-> TRUE, last_valid |-> last_valid0]
        end_invalid == loop.result /\ ~IsValid(checker0, s2)
        result == IF end_invalid THEN FALSE ELSE loop.result
        last_valid1 ==
            IF end_invalid
            THEN SetLastValid(loop.last_valid, s1, s2, LastValidTime(nd, nd))
            ELSE loop.last_valid
    IN  [result |-> result, stats |-> CountMotion(stats0, result),
         last_valid |-> last_valid1]

\* MotionCheckStats::reset
ResetStats(stats0) == [stats0 EXCEPT !.valid = 0, !.invalid = 0]

\* -------------------------------------------------------------------- state

VARIABLES
    root,      \* VpAvl.root
    nodes,     \* VpAvl.nodes
    data,      \* VpAvl.data
    metric,    \* VpAvl.metric
    it,        \* the live nearest iterator borrowing the tree, or NoIter
    yielded,   \* the (index, distance) items the live iterator has returned
    last,      \* the last call: what was called, with what, and its result
    built,     \* how the tree came to be: "new", "bulk", "inserts" or "mixed"
    checker,   \* DiscreteMotionValidator.checker: the set of the valid states
    stats,     \* DiscreteMotionValidator.stats
    last_valid,\* the caller's (Option<state>, time) pair, as the last call left it
    motion,    \* the last motion check: the call, its arguments and result
    calls      \* the motion checks made since the counters were last reset

vars == <<root, nodes, data, metric, it, yielded, last, built,
          checker, stats, last_valid, motion, calls>>

\* The motion validator's part of the state.
mvars == <<checker, stats, last_valid, motion, calls>>

\* The tree's part of the state.
tvars == <<root, nodes, data, metric, it, yielded, last, built>>

\* A motion check's record: op the method, s1 and s2 its states, given the
\* last_valid pair passed in, result what it returned.
MotionCall(op, s1, s2, given, result) ==
    [op |-> op, s1 |-> s1, s2 |-> s2, given |-> given, result |-> result]

\* The (Option<state>, time) pairs a caller passes in.
LastValidSlots ==
    {<<s, t>> : s \in {None, 0, MaxPos}, t \in {F64Div(0, 1), F64Div(1, 1)}}

\* DiscreteMotionValidator::new over the checker checker0, nothing checked yet
NewValidator(checker0) ==
    /\ checker = checker0
    /\ stats = DefaultStats
    /\ last_valid = <<None, F64Div(0, 1)>>
    /\ motion = MotionCall("new", None, None, <<None, F64Div(0, 1)>>, FALSE)
    /\ calls = 0

\* The tree the variables hold (self).
Self == [root |-> root, nodes |-> nodes, data |-> data, metric |-> metric]

\* No iterator borrows the tree.
NoIter == [query_point |-> <<>>, prospects |-> <<>>, yield_queue |-> <<>>]

\* A call's record: op the method, arg its argument, status "ok" when it
\* returned and "panic" when it panicked, ret the Option it returned (<<>> is
\* None, <<x>> is Some(x)), index the storage index remove took the element
\* from (for insert, the node below the root whose subtree its rebalance
\* rebuilt, None when there is none), before the size() the call started with.
Call(op, arg, status, ret, index, before) ==
    [op |-> op, arg |-> arg, status |-> status, ret |-> ret,
     index |-> index, before |-> before]

\* A panic unwinds out of the program: nothing is called after it.
Running == last.status # "panic"

\* The batches bulk_insert is given: every Vec of at most MaxSize elements.
Batches == UNION { [0..(n - 1) -> Elements] : n \in 0..MaxSize }

SetTree(t) ==
    /\ root' = t.root
    /\ nodes' = t.nodes
    /\ data' = t.data
    /\ metric' = t.metric

Init ==
    /\ \E m \in Metrics : /\ root = New(m).root
                          /\ nodes = New(m).nodes
                          /\ data = New(m).data
                          /\ metric = New(m).metric
    /\ it = NoIter
    /\ yielded = <<>>
    /\ last = Call("new", <<>>, "ok", <<>>, None, 0)
    /\ built = "new"
    /\ NewValidator({})

\* VpAvl::bulk_insert(metric, batch), the other constructor: the program
\* builds its tree with it instead of new.
DoBulkInsert ==
    /\ last.op = "new"
    /\ \E m \in Metrics, batch \in Batches :
        IF BulkInsertPanics(batch)
        THEN /\ last' = Call("bulk_insert", batch, "panic", <<>>, None, 0)
             /\ UNCHANGED <<root, nodes, data, metric>>
        ELSE /\ \E t \in BulkInsert(m, batch) : SetTree(t)
             /\ last' = Call("bulk_insert", batch, "ok", <<>>, None, 0)
    /\ built' = "bulk"
    /\ UNCHANGED <<it, yielded>>
    /\ UNCHANGED mvars

\* VpAvl::insert(value) on a tree of fewer than max elements
InsertUpTo(max) ==
    /\ Running /\ it = NoIter
    /\ Size(Self) < max
    /\ \E value \in Elements :
        /\ InsertIsExact(Self, value)
        /\ \E t \in Insert(Self, value) : SetTree(t)
        /\ last' = Call("insert", value, "ok", <<>>,
                        RebuiltBelowRoot(Self, value), Size(Self))
    /\ built' = IF built \in {"new", "inserts"} THEN "inserts" ELSE "mixed"
    /\ UNCHANGED <<it, yielded>>
    /\ UNCHANGED mvars

\* VpAvl::insert(value)
DoInsert == InsertUpTo(MaxSize)

\* VpAvl::remove(&location)
DoRemove ==
    /\ Running /\ it = NoIter
    /\ \E value \in Points :
        \E r \in Remove(Self, value) :
            /\ SetTree(r.tree)
            /\ last' = Call("remove", value, r.status, r.ret, r.index,
                            Size(Self))
    /\ built' = "mixed"
    /\ UNCHANGED <<it, yielded>>
    /\ UNCHANGED mvars

\* VpAvl::update_metric(metric)
DoUpdateMetric ==
    /\ Running /\ it = NoIter
    /\ \E m \in Metrics :
        IF BulkInsertPanics(data)
        THEN /\ last' = Call("update_metric", m, "panic", <<>>, None, Size(Self))
             /\ UNCHANGED <<root, nodes, data, metric>>
        ELSE /\ \E t \in UpdateMetric(Self, m) : SetTree(t)
             /\ last' = Call("update_metric", m, "ok", <<>>, None, Size(Self))
    /\ built' = "mixed"
    /\ UNCHANGED <<it, yielded>>
    /\ UNCHANGED mvars

\* VpAvl::nn_dist_iter(&query_point) (nn_iter maps it to the elements)
DoNnIter ==
    /\ Running /\ it = NoIter
    /\ \E query_point \in Points :
        /\ it' = KnnNew(Self, query_point)
        /\ last' = Call("nn_iter", query_point, "ok", <<>>, None, Size(Self))
    /\ yielded' = <<>>
    /\ UNCHANGED <<root, nodes, data, metric, built>>
    /\ UNCHANGED mvars

\* KnnIterator::next on the live iterator
DoNext ==
    /\ Running /\ it # NoIter
    /\ \E o \in KnnNext(Self, it) :
        /\ it' = o.it
        /\ yielded' = IF o.path = "end" THEN yielded
                      ELSE Append(yielded, IndexItem(o))
        /\ last' = Call("next", it.query_point, "ok",
                        IF o.path = "end" THEN <<>> ELSE <<RefItem(Self, o)>>,
                        None, Size(Self))
    /\ UNCHANGED <<root, nodes, data, metric, built>>
    /\ UNCHANGED mvars

\* The iterator is dropped: its borrow of the tree ends.
DoDrop ==
    /\ Running /\ it # NoIter
    /\ it' = NoIter
    /\ yielded' = <<>>
    /\ last' = Call("drop", <<>>, "ok", <<>>, None, Size(Self))
    /\ UNCHANGED <<root, nodes, data, metric, built>>
    /\ UNCHANGED mvars

Next ==
    \/ DoBulkInsert
    \/ DoInsert
    \/ DoRemove
    \/ DoUpdateMetric
    \/ DoNnIter
    \/ DoNext
    \/ DoDrop

\* The whole program: the tree's operations and its nearest iterator.
Spec == Init /\ [][Next]_vars

\* The operations that build and change the tree, no iterator being made.
NextTree ==
    \/ DoBulkInsert
    \/ DoInsert
    \/ DoRemove
    \/ DoUpdateMetric

SpecTree == Init /\ [][NextTree]_vars

\* VpAvl::insert(value), up to the size a rebuild below the root takes
DoInsertDeep == InsertUpTo(MaxDeep)

NextDeep == DoInsertDeep

\* Trees grown by insert alone from new, up to MaxDeep elements.
SpecDeep == Init /\ [][NextDeep]_vars

\* A validator over any checker, and an empty tree nothing is done with.
InitMotion ==
    /\ \E checker0 \in SUBSET States : NewValidator(checker0)
    /\ root = New("euclidean").root
    /\ nodes = New("euclidean").nodes
    /\ data = New("euclidean").data
    /\ metric = New("euclidean").metric
    /\ it = NoIter
    /\ yielded = <<>>
    /\ last = Call("new", <<>>, "ok", <<>>, None, 0)
    /\ built = "new"

\* check_motion(s1, s2); s1 is valid, as the function assumes
DoCheckMotion ==
    /\ calls < MaxCalls
    /\ \E s1 \in checker, s2 \in States :
        LET r == CheckMotion(checker, stats, s1, s2)
        IN  /\ stats' = r.stats
            /\ motion' = MotionCall("check_motion", s1, s2, last_valid, r.result)
    /\ calls' = calls + 1
    /\ UNCHANGED <<checker, last_valid>>
    /\ UNCHANGED tvars

\* check_motion_with_last_valid(s1, s2, &mut given); s1 is valid, as the
\* function assumes
DoCheckMotionWithLastValid ==
    /\ calls < MaxCalls
    /\ \E s1 \in checker, s2 \in States, given \in LastValidSlots :
        LET r == CheckMotionWithLastValid(checker, stats, s1, s2, given)
        IN  /\ stats' = r.stats
            /\ last_valid' = r.last_valid
            /\ motion' = MotionCall("check_motion_with_last_valid", s1, s2,
                                    given, r.result)
    /\ calls' = calls + 1
    /\ UNCHANGED checker
    /\ UNCHANGED tvars

\* MotionValidator::reset_motion_counter
DoResetMotionCounter ==
    /\ calls > 0
    /\ stats' = ResetStats(stats)
    /\ motion' = MotionCall("reset_motion_counter", None, None, last_valid, FALSE)
    /\ calls' = 0
    /\ UNCHANGED <<checker, last_valid>>
    /\ UNCHANGED tvars

NextMotion ==
    \/ DoCheckMotion
    \/ DoCheckMotionWithLastValid
    \/ DoResetMotionCounter

\* The motion validator: any sequence of motion checks and counter resets.
SpecMotion == InitMotion /\ [][NextMotion]_vars

\* ------------------------------------------------------ what the claims use

\* The node indices of the subtree rooted at node n.
Subtree(t, n) == {ChildIndices(t, n)[i] : i \in 1..Len(ChildIndices(t, n))}

\* A child's cached height, a missing child counting as -1.
HeightOrMinus1(t, child) == IF child = None THEN -1 ELSE t.nodes[child].height

\* The values ds[i], i in I, in ascending order.
RECURSIVE Ascending(_, _)
Ascending(ds, I) ==
    IF I = {} THEN <<>>
    ELSE LET i == CHOOSE i \in I : \A j \in I : ds[i] <= ds[j]
         IN  <<ds[i]>> \o Ascending(ds, I \ {i})

\* Brute force: the distances from q to every stored element, ascending.
BruteForce(t, q) ==
    Ascending([i \in DOMAIN t.data |-> Distance(t.metric, q, Location(t.data[i]))],
              DOMAIN t.data)

\* Every sequence of distances a nearest iterator can yield from state i
\* until it ends.
RECURSIVE DistanceRuns(_, _)
DistanceRuns(t, i) ==
    UNION { IF o.path = "end" THEN {<<>>}
            ELSE { <<o.entry.min_distance>> \o r : r \in DistanceRuns(t, o.it) }
          : o \in KnnNext(t, i) }

\* The distance sequences nn_dist_iter(q) can yield on tree t.
NnDistances(t, q) == DistanceRuns(t, KnnNew(t, q))

\* How many entries of the Vec v equal e.
Count(v, e) == Cardinality({i \in DOMAIN v : v[i] = e})

\* The nodes insert_root visits while it descends from node n with value.
RECURSIVE DescentPath(_, _, _)
DescentPath(t, n, value) ==
    LET distance == Distance(t.metric, Location(NodeIndexData(t, t.nodes[n].center)),
                             Location(value))
        next == IF distance < t.nodes[n].radius
                THEN t.nodes[n].interior ELSE t.nodes[n].exterior
    IN  {n} \cup (IF next = None THEN {} ELSE DescentPath(t, next, value))

\* ------------------------------------------------------------------- claims

\* C1: for every tree and query, the first k items a nearest iterator has
\* yielded carry exactly the k smallest distances brute force finds over the
\* stored elements, and each item is a stored element at its distance.
NnFirstKAreKSmallest ==
    it # NoIter =>
        /\ Len(yielded) <= Size(Self)
        /\ \A k \in 1..Len(yielded) :
            /\ yielded[k][2] = BruteForce(Self, it.query_point)[k]
            /\ yielded[k][1] \in DOMAIN data
            /\ Distance(metric, it.query_point, Location(data[yielded[k][1]]))
                   = yielded[k][2]
        /\ (last.op = "next" /\ last.ret # <<>>) =>
            /\ last.ret[1][1] = data[yielded[Len(yielded)][1]]
            /\ last.ret[1][2] = BruteForce(Self, it.query_point)[Len(yielded)]

\* C1 witness: on a tree changed by insert or remove, three items were
\* yielded, at more than one distance, for a query that is not stored.
NnFirstKWitness ==
    /\ it # NoIter
    /\ built = "mixed"
    /\ Len(yielded) >= 3
    /\ yielded[1][2] < yielded[3][2]
    /\ \A i \in DOMAIN data : Location(data[i]) # it.query_point

\* C2: the distances of the successive items of a nearest iterator never
\* decrease.
NnNonDecreasing ==
    \A i \in 1..(Len(yielded) - 1) : yielded[i][2] <= yielded[i + 1][2]

\* C2 witness: a second item strictly farther than the first.
NnNonDecreasingWitness ==
    /\ Len(yielded) >= 2
    /\ yielded[1][2] < yielded[2][2]

\* C3 (as claimed): remove of a location no stored element has returns None
\* without panicking and leaves the storage and the tree as they were.
RemoveAbsentReturnsNone ==
    [][(/\ last'.op = "remove"
        /\ \A i \in DOMAIN data : Location(data[i]) # last'.arg)
       => (/\ last'.status = "ok"
           /\ last'.ret = <<>>
           /\ data' = data
           /\ nodes' = nodes)]_vars

\* C4: a remove takes out of the storage at most the element it returns,
\* whose location is the one asked for; every other stored element stays
\* (as multisets, data after = data before minus the returned element), and
\* a remove that returns nothing leaves the storage as it was.
RemoveOnlyTheNamed ==
    [][last'.op = "remove" =>
        IF last'.status = "ok"
        THEN /\ Len(last'.ret) = 1
             /\ Location(last'.ret[1]) = last'.arg
             /\ \A e \in Elements :
                    Count(data', e) =
                        Count(data, e) - (IF e = last'.ret[1] THEN 1 ELSE 0)
        ELSE data' = data]_vars

\* C4 witness: a remove returned an element and elements at two other
\* locations are still stored.
RemoveOnlyTheNamedWitness ==
    /\ last.op = "remove" /\ last.status = "ok"
    /\ \E i, j \in DOMAIN data :
        /\ Location(data[i]) # Location(data[j])
        /\ Location(data[i]) # last.arg
        /\ Location(data[j]) # last.arg

\* C5 (as claimed): every element of a node's interior subtree is strictly
\* closer to the node's center than its radius, every element of its
\* exterior subtree at least as far.
StrictPartition ==
    \A n \in DOMAIN nodes :
        /\ nodes[n].interior # None =>
            \A d \in Subtree(Self, nodes[n].interior) :
                Distance(metric, Location(NodeIndexData(Self, n)),
                         Location(NodeIndexData(Self, d))) < nodes[n].radius
        /\ nodes[n].exterior # None =>
            \A d \in Subtree(Self, nodes[n].exterior) :
                Distance(metric, Location(NodeIndexData(Self, n)),
                         Location(NodeIndexData(Self, d))) >= nodes[n].radius

\* C6: after every operation that returned, every node's height is
\* 1 + max(height(interior), height(exterior)), a missing child counting -1.
HeightBookkeeping ==
    last.status = "ok" =>
        \A n \in DOMAIN nodes :
            nodes[n].height =
                1 + MaxOf(HeightOrMinus1(Self, nodes[n].interior),
                          HeightOrMinus1(Self, nodes[n].exterior))

\* C6 witness: an insert returned after a rebuild (the element it added is
\* no leaf) on a tree of four elements.
HeightBookkeepingWitness ==
    /\ last.op = "insert"
    /\ Size(Self) = 4
    /\ nodes[Size(Self) - 1].height > 0

\* C7: a remove that returned the element at storage index i of n elements
\* leaves n - 1 elements, the element that was last at index i (when i is
\* not the last index), every other element at its index, and the node
\* array without its last entry.
RemoveSwapAndPop ==
    [][(last'.op = "remove" /\ last'.status = "ok") =>
        LET n == VecLen(data)
            i == last'.index
        IN  /\ i \in DOMAIN data
            /\ last'.ret = <<data[i]>>
            /\ VecLen(data') = n - 1
            /\ i # n - 1 => data'[i] = data[n - 1]
            /\ \A j \in DOMAIN data' \ {i} : data'[j] = data[j]
            /\ DOMAIN nodes' = DOMAIN nodes \ {n - 1}
            /\ \A j \in DOMAIN nodes' : nodes'[j].center = nodes[j].center]_vars

\* C7 witness: the removed element was not the last one, and the element
\* moved into its slot is another one.
RemoveSwapAndPopWitness ==
    /\ last.op = "remove" /\ last.status = "ok"
    /\ last.index < Size(Self)
    /\ <<data[last.index]>> # last.ret

\* The round trip of C8 on a tree that is not empty before the insert.
RoundTripHolds ==
    /\ last'.status = "ok"
    /\ Len(last'.ret) = 1
    /\ VecLen(data') = last.before
    /\ ~BulkInsertPanics(data') =>
        \A q \in Points : \A b \in BulkInsert(metric', data') :
            NnDistances(Self', q) = NnDistances(b, q)

\* C8 (as claimed): insert(x) then remove(location(x)) returns an element,
\* leaves size() as before the insert, and every query then yields the
\* distances it yields on the tree bulk_insert builds from what remains.
InsertRemoveRoundTrip ==
    [][(/\ last.op = "insert"
        /\ last'.op = "remove"
        /\ last'.arg = Location(last.arg))
       => (RoundTripHolds /\ ~BulkInsertPanics(data'))]_vars

\* C8, where bulk_insert builds a tree from what remains: the round trip
\* holds whenever an element remains.
InsertRemoveRoundTripNonEmpty ==
    [][(/\ last.op = "insert"
        /\ last'.op = "remove"
        /\ last'.arg = Location(last.arg))
       => RoundTripHolds]_vars

\* Every query yields on the tree held the distances it yields on each tree
\* bulk_insert builds from the same elements.
SameAsBulk ==
    \A q \in Points : \A b \in BulkInsert(metric, data) :
        NnDistances(Self, q) = NnDistances(b, q)

\* C9 (as claimed): for every set S of elements, the tree built by |S|
\* inserts and the tree bulk_insert builds over S yield the same distances
\* for every query.
BulkEquivalence ==
    built \in {"new", "inserts"} => (~BulkInsertPanics(data) /\ SameAsBulk)

\* C9, for a set S that is not empty.
BulkEquivalenceNonEmpty ==
    (built = "inserts" /\ ~BulkInsertPanics(data)) => SameAsBulk

\* C10 (as claimed): when insert returns, no node of the insertion path has
\* interior and exterior heights that differ by more than 1, a missing child
\* counting -1.
BalancedOnInsertPath ==
    [][(last'.op = "insert" /\ VecLen(data) > 0) =>
        \A n \in DescentPath(Self, root, last'.arg) :
            LET hi == HeightOrMinus1(Self', nodes'[n].interior)
                he == HeightOrMinus1(Self', nodes'[n].exterior)
            IN  hi - he <= 1 /\ he - hi <= 1]_vars

\* The sequence s without its i-th entry.
Omit(s, i) == SubSeq(s, 1, i - 1) \o SubSeq(s, i + 1, Len(s))

\* C11 (as claimed): iter() yields the stored elements in insertion order:
\* after bulk_insert the batch in its order, after insert what it yielded
\* before followed by the new element, after a remove what it yielded before
\* with the removed element left out.
IterInInsertionOrder ==
    [][/\ (last'.op = "bulk_insert" /\ last'.status = "ok")
            => Iter(Self') = VecSeq(last'.arg)
       /\ last'.op = "insert"
            => Iter(Self') = Append(Iter(Self), last'.arg)
       /\ (last'.op = "remove" /\ last'.status = "ok")
            => Iter(Self') = Omit(Iter(Self), last'.index + 1)]_vars

\* On an empty tree a nearest iterator holds no node to measure a distance
\* to, and its next() returns the end of the sequence.
EmptyIterEnds ==
    (Size(Self) = 0 /\ it # NoIter) =>
        /\ it.prospects = <<>>
        /\ \A o \in KnnNext(Self, it) : o.path = "end"
        /\ yielded = <<>>
        /\ last.op = "next" => last.ret = <<>>

\* C12 (as claimed): an empty tree, be it made by new, by bulk_insert of an
\* empty batch or by removing the last element, exists and its nearest
\* iterator's first next() returns the end, no distance being computed.
EmptyTreeIterEnds ==
    /\ (last.op = "bulk_insert" /\ VecLen(last.arg) = 0) => last.status = "ok"
    /\ EmptyIterEnds

\* C13: the node array and the element array have the same length, size();
\* node i has center i, for every index i; the root index is 0.
StorageShape ==
    /\ VecLen(nodes) = VecLen(data)
    /\ VecLen(data) = Size(Self)
    /\ DOMAIN nodes = 0..(Size(Self) - 1)
    /\ DOMAIN data = DOMAIN nodes
    /\ \A i \in DOMAIN nodes : nodes[i].center = i
    /\ root = 0

\* C13 witness: a remove took an element that was not the last out of a tree
\* of four, and three nodes remain, one of them with two children.
StorageShapeWitness ==
    /\ last.op = "remove" /\ last.status = "ok"
    /\ last.before = 4
    /\ last.index < 3
    /\ Size(Self) = 3
    /\ \E n \in DOMAIN nodes : nodes[n].interior # None /\ nodes[n].exterior # None

\* What update_metric leaves when it returns: the elements at their storage
\* indices, a node structure bulk_insert builds over them with the new
\* metric, and an iterator that yields the distances of the new metric in
\* ascending order.
RebuiltWith(metric0) ==
    /\ data' = data
    /\ metric' = metric0
    /\ Self' \in BulkInsert(metric0, data)
    /\ \A q \in Points :
        NnDistances(Self', q) = {BruteForce([Self EXCEPT !.metric = metric0], q)}

\* C14 (as claimed): update_metric(new_metric) returns the tree rebuilt with
\* new_metric over the same elements in the same storage order.
UpdateMetricIsRebuild ==
    [][last'.op = "update_metric" =>
        (last'.status = "ok" /\ RebuiltWith(last'.arg))]_vars

\* C14, for a tree that holds an element.
UpdateMetricIsRebuildNonEmpty ==
    [][(last'.op = "update_metric" /\ last'.status = "ok") =>
        RebuiltWith(last'.arg)]_vars

\* C19: every element of a node's interior subtree is no farther from the
\* node's center than its radius, every element of its exterior subtree at
\* least as far, duplicates and equidistant elements included.
WeakPartition ==
    \A n \in DOMAIN nodes :
        /\ nodes[n].interior # None =>
            \A d \in Subtree(Self, nodes[n].interior) :
                Distance(metric, Location(NodeIndexData(Self, n)),
                         Location(NodeIndexData(Self, d))) <= nodes[n].radius
        /\ nodes[n].exterior # None =>
            \A d \in Subtree(Self, nodes[n].exterior) :
                Distance(metric, Location(NodeIndexData(Self, n)),
                         Location(NodeIndexData(Self, d))) >= nodes[n].radius

\* C19 witness: in a tree of four changed since it was built, a node has an
\* interior element exactly at its radius and an exterior subtree.
WeakPartitionWitness ==
    /\ built = "mixed"
    /\ Size(Self) = 4
    /\ \E n \in DOMAIN nodes :
        /\ nodes[n].interior # None
        /\ nodes[n].exterior # None
        /\ nodes[n].radius > 0
        /\ \E d \in Subtree(Self, nodes[n].interior) :
            Distance(metric, Location(NodeIndexData(Self, n)),
                     Location(NodeIndexData(Self, d))) = nodes[n].radius

\* Every element of the subtree rooted at node is at least lower_bound away
\* from the query q.
IsLowerBound(t, q, node, lower_bound) ==
    \A d \in Subtree(t, node) :
        Distance(t.metric, q, Location(NodeIndexData(t, d))) >= lower_bound

\* C20: every entry (node, lower_bound) of the live iterator's prospects
\* queue bounds from below the distance from the query to every element of
\* node's subtree; and so does every entry next() can push: the root with 0,
\* a node's interior child with max(exact - radius, 0) and its exterior
\* child with max(radius - exact, 0), for every query.
ProspectsAreLowerBounds ==
    /\ it # NoIter =>
        \A i \in 1..Len(it.prospects) :
            IsLowerBound(Self, it.query_point, it.prospects[i].index,
                         it.prospects[i].min_distance)
    /\ \A q \in Points :
        /\ \A i \in 1..Len(KnnNew(Self, q).prospects) :
            IsLowerBound(Self, q, KnnNew(Self, q).prospects[i].index,
                         KnnNew(Self, q).prospects[i].min_distance)
        /\ \A n \in DOMAIN nodes :
            LET exact == Distance(metric, q, Location(NodeIndexData(Self, n)))
            IN  /\ nodes[n].interior # None =>
                    IsLowerBound(Self, q, nodes[n].interior,
                                 MinInteriorDistance(exact, nodes[n].radius))
                /\ nodes[n].exterior # None =>
                    IsLowerBound(Self, q, nodes[n].exterior,
                                 MinExteriorDistance(exact, nodes[n].radius))

\* C20 witness: after an item was yielded, the live iterator's queue holds an
\* entry with a positive bound for a subtree of more than one element.
ProspectsWitness ==
    /\ it # NoIter
    /\ Len(yielded) >= 1
    /\ \E i \in 1..Len(it.prospects) :
        /\ it.prospects[i].min_distance > 0
        /\ Cardinality(Subtree(Self, it.prospects[i].index)) > 1

\* Sample j of the motion from s1 to s2 is valid: the state interpolated at
\* j/nd for j < nd, and s2 itself for j = nd.
SampleValid(s1, s2, j) ==
    LET nd == ValidSegmentCount(s1, s2)
    IN  IF j = nd THEN IsValid(checker, s2)
        ELSE IsValid(checker, Interpolate(s1, s2, F64Div(j, nd)))

\* The path from s1 to s2 is valid: s2 and every sample between are.
PathValid(s1, s2) ==
    /\ IsValid(checker, s2)
    /\ \A j \in 1..(ValidSegmentCount(s1, s2) - 1) : SampleValid(s1, s2, j)

\* C15 (as claimed): check_motion returns true exactly when s2 and every
\* sample at j/nd, 1 <= j < nd, are valid.
CheckMotionExact ==
    motion.op = "check_motion" =>
        (motion.result <=> PathValid(motion.s1, motion.s2))

\* What check_motion does return: true exactly when s2 is invalid and every
\* sample between is valid (its two-ended bisection visits them all).
CheckMotionEndInverted ==
    motion.op = "check_motion" =>
        (motion.result <=>
            /\ ~IsValid(checker, motion.s2)
            /\ \A j \in 1..(ValidSegmentCount(motion.s1, motion.s2) - 1) :
                SampleValid(motion.s1, motion.s2, j))

\* C16: when check_motion_with_last_valid returns true, the caller's
\* last_valid pair is as it was passed in, state and time.
LastValidKeptOnTrue ==
    (motion.op = "check_motion_with_last_valid" /\ motion.result) =>
        /\ last_valid[1] = motion.given[1]
        /\ last_valid[2] = motion.given[2]

\* C16 witness: a motion of at least three segments was found valid, and the
\* pair passed in held a state and the time 1.
LastValidKeptWitness ==
    /\ motion.op = "check_motion_with_last_valid" /\ motion.result
    /\ ValidSegmentCount(motion.s1, motion.s2) >= 3
    /\ motion.given = <<MaxPos, F64Div(1, 1)>>

\* C17: when check_motion_with_last_valid returns false, the time left is
\* (j - 1)/nd for the first invalid sample index j of 1..nd (nd being s2),
\* which is in [0, 1); a state slot that was supplied holds the interpolation
\* of s1, s2 at that time, and none is supplied by the call.
LastValidOnFalse ==
    (motion.op = "check_motion_with_last_valid" /\ ~motion.result) =>
        LET nd == ValidSegmentCount(motion.s1, motion.s2)
        IN  /\ nd >= 1
            /\ \E j \in 1..nd :
                /\ ~SampleValid(motion.s1, motion.s2, j)
                /\ \A k \in 1..(j - 1) : SampleValid(motion.s1, motion.s2, k)
                /\ last_valid[2][1] * nd = (j - 1) * last_valid[2][2]
            /\ last_valid[2][2] > 0
            /\ 0 <= last_valid[2][1]
            /\ last_valid[2][1] < last_valid[2][2]
            /\ IF motion.given[1] # None
               THEN last_valid[1]
                        = Interpolate(motion.s1, motion.s2, last_valid[2])
               ELSE last_valid[1] = None

\* C17 witness: a motion downwards of four segments whose third sample is the
\* first invalid one, with a state slot supplied: time 1/2, state s1 - 2.
LastValidOnFalseWitness ==
    /\ motion.op = "check_motion_with_last_valid" /\ ~motion.result
    /\ motion.s1 = 4 /\ motion.s2 = 0
    /\ motion.given[1] # None
    /\ last_valid = <<2, <<1, 2>>>>

\* C18: every check_motion and check_motion_with_last_valid call adds one to
\* exactly one counter, valid when it returns true and invalid when it
\* returns false, and checked_motion_count() is the number of calls since
\* the last reset.
MotionCounted ==
    [][/\ motion'.op \in {"check_motion", "check_motion_with_last_valid"} =>
            IF motion'.result
            THEN stats' = [stats EXCEPT !.valid = @ + 1]
            ELSE stats' = [stats EXCEPT !.invalid = @ + 1]
       /\ CheckedMotionCount(stats') = calls']_vars

\* C18 witness: three calls since the last reset, of both results, the last
\* one a check_motion that returned true.
MotionCountedWitness ==
    /\ calls = 3
    /\ stats.valid >= 1 /\ stats.invalid >= 1
    /\ motion.op = "check_motion" /\ motion.result

\* C21: an item next() emits is no farther than any lower bound left in
\* prospects and than any exact distance left in yield_queue; next() returns
\* the end only when nothing is left in either queue.
YieldRule ==
    (it # NoIter /\ last.op = "next") =>
        IF last.ret # <<>>
        THEN /\ \A i \in 1..Len(it.prospects) :
                    last.ret[1][2] <= it.prospects[i].min_distance
             /\ \A i \in 1..Len(it.yield_queue) :
                    last.ret[1][2] <= it.yield_queue[i].min_distance
        ELSE it.prospects = <<>> /\ it.yield_queue = <<>>

\* C21 witness: an item was emitted at a positive distance while a subtree
\* was still unexplored and another measured element was waiting.
YieldRuleWitness ==
    /\ it # NoIter /\ last.op = "next" /\ last.ret # <<>>
    /\ last.ret[1][2] > 0
    /\ Len(it.prospects) >= 1
    /\ Len(it.yield_queue) >= 1

\* The storage slots of the items the live iterator has yielded.
YieldedSlots == {yielded[k][1] : k \in 1..Len(yielded)}

\* C22: the nearest iterator yields every stored element exactly once: no
\* slot twice, at most size() items, and when next() returns the end all
\* size() elements have been yielded, so that every next() after the
\* size()-th returns the end.
IterFiniteComplete ==
    it # NoIter =>
        /\ Cardinality(YieldedSlots) = Len(yielded)
        /\ YieldedSlots \subseteq DOMAIN data
        /\ Len(yielded) <= Size(Self)
        /\ (last.op = "next" /\ last.ret = <<>>) =>
            /\ Len(yielded) = Size(Self)
            /\ YieldedSlots = DOMAIN data
        /\ Len(yielded) = Size(Self) =>
            \A o \in KnnNext(Self, it) : o.path = "end" /\ o.it = it

\* C22 witness: on a tree of four, next() was called after the four
\* elements were yielded and returned the end.
IterFiniteCompleteWitness ==
    /\ it # NoIter
    /\ Size(Self) = 4
    /\ Len(yielded) = 4
    /\ last.op = "next" /\ last.ret = <<>>

\* The storage slots of the entries of a queue, entry by entry.
QueueSlots(queue) == [i \in 1..Len(queue) |-> queue[i].index]

\* C23: no storage slot is in more than one entry of prospects and
\* yield_queue together, and none that was emitted is in either again.
SlotsEnteredOnce ==
    it # NoIter =>
        LET slots == QueueSlots(it.prospects) \o QueueSlots(it.yield_queue)
                        \o [k \in 1..Len(yielded) |-> yielded[k][1]]
        IN  \A i, j \in 1..Len(slots) : i # j => slots[i] # slots[j]

\* C23 witness: two items were emitted and both queues hold an entry.
SlotsEnteredOnceWitness ==
    /\ it # NoIter
    /\ Len(yielded) >= 2
    /\ Len(it.prospects) >= 1
    /\ Len(it.yield_queue) >= 1

\* C24 (as claimed): after a remove that returned and leaves at least two
\* elements, the nodes (links, height and radius of each) are those of a
\* tree bulk_insert builds from the remaining elements in storage order.
RemoveRebuildsFromScratch ==
    [][(last'.op = "remove" /\ last'.status = "ok" /\ VecLen(data') >= 2) =>
        \E b \in BulkInsert(metric', data') : nodes' = b.nodes]_vars

\* C24, the radius of the leaves left aside: links and heights of all nodes
\* and the radius of every node that has a child are those of a bulk_insert.
RemoveRebuildsButLeafRadius ==
    [][(last'.op = "remove" /\ last'.status = "ok" /\ VecLen(data') >= 2) =>
        \E b \in BulkInsert(metric', data') :
            \A n \in DOMAIN nodes' :
                /\ nodes'[n].interior = b.nodes[n].interior
                /\ nodes'[n].exterior = b.nodes[n].exterior
                /\ nodes'[n].parent = b.nodes[n].parent
                /\ nodes'[n].height = b.nodes[n].height
                /\ nodes'[n].height > 0 => nodes'[n].radius = b.nodes[n].radius]_vars

\* C25: a rebuild that rebalance makes at node X during an insert leaves X
\* the root of its subtree with its center and its parent link, the same
\* elements in X's subtree, and every node outside X's subtree with all its
\* fields.
RebalanceIsLocal ==
    [][last'.op = "insert" =>
        \A s \in InsertSteps(Self, last'.arg) :
            RebalanceRebuilds(s.before, s.node) =>
                /\ s.after.nodes[s.node].center = s.before.nodes[s.node].center
                /\ s.after.nodes[s.node].parent = s.before.nodes[s.node].parent
                /\ Subtree(s.after, s.node) = Subtree(s.before, s.node)
                /\ s.after.data = s.before.data
                /\ DOMAIN s.after.nodes = DOMAIN s.before.nodes
                /\ \A n \in DOMAIN s.before.nodes \ Subtree(s.before, s.node) :
                    s.after.nodes[n] = s.before.nodes[n]]_vars

\* C25 witness: an insert returned whose rebalance rebuilt the subtree of a
\* node that is not the root.
RebalanceIsLocalWitness ==
    /\ last.op = "insert"
    /\ last.index # None
    /\ last.index # root
    /\ nodes[last.index].parent # None

\* The height rebalance reads for a child: the cached height, 0 when the
\* child is absent.
HeightOr0(t, child) == IF child = None THEN 0 ELSE t.nodes[child].height

\* C26: in every state reached by bulk_insert, insert and remove, every node's
\* interior and exterior child heights, as cached and with an absent child
\* counting 0, differ by at most 1.
BalancedAsCoded ==
    \A n \in DOMAIN nodes :
        LET hi == HeightOr0(Self, nodes[n].interior)
            he == HeightOr0(Self, nodes[n].exterior)
        IN  hi - he <= 1 /\ he - hi <= 1

\* C26 witness: an insert has just returned, and some node has one child
\* absent and the other of height 1, which the comparison with 0 accepts.
BalancedAsCodedWitness ==
    /\ last.op = "insert" /\ last.status = "ok"
    /\ \E n \in DOMAIN nodes :
        /\ nodes[n].interior = None
        /\ nodes[n].exterior # None
        /\ nodes[nodes[n].exterior].height = 1

\* The elements of the subtree below a child link, none for a missing child.
Below(t, child) == IF child = None THEN {} ELSE Subtree(t, child)

\* Distance from node n's center to the element of node d.
CenterDistance(t, n, d) ==
    Distance(t.metric, Location(NodeIndexData(t, n)),
             Location(NodeIndexData(t, d)))

\* The partition step at node n of tree t, for a node built from m >= 2
\* remaining indices: ceil(m/2) elements inside, floor(m/2) outside, no
\* interior element farther from the center than an exterior one, and the
\* radius the smallest exterior distance.
PartitionStep(t, n) ==
    LET m == Cardinality(Subtree(t, n)) - 1
        I == Below(t, t.nodes[n].interior)
        E == Below(t, t.nodes[n].exterior)
    IN  m >= 2 =>
            /\ Cardinality(I) = (m + 1) \div 2
            /\ Cardinality(E) = m \div 2
            /\ \A i \in I : \A e \in E :
                CenterDistance(t, n, i) <= CenterDistance(t, n, e)
            /\ \E e \in E : t.nodes[n].radius = CenterDistance(t, n, e)
            /\ \A e \in E : t.nodes[n].radius <= CenterDistance(t, n, e)

\* The call that just returned rebuilt the whole tree with the bulk build.
WholeTreeRebuilt ==
    /\ last.status = "ok"
    /\ \/ last.op \in {"bulk_insert", "update_metric"}
       \/ last.op = "remove" /\ last.ret # <<>>

\* C27: every node the bulk build made from m >= 2 remaining indices, in a
\* build of the whole tree (bulk_insert, update_metric, remove) or in the
\* rebuild of a subtree by an insert's rebalance, has ceil(m/2) interior and
\* floor(m/2) exterior elements, no interior element farther from its center
\* than an exterior one, and the smallest exterior distance as its radius.
BulkPartitionStep ==
    [][/\ WholeTreeRebuilt' =>
            \A n \in DOMAIN nodes' : PartitionStep(Self', n)
       /\ last'.op = "insert" =>
            \A s \in InsertSteps(Self, last'.arg) :
                RebalanceRebuilds(s.before, s.node) =>
                    \A n \in Subtree(s.after, s.node) :
                        PartitionStep(s.after, n)]_vars

\* C27 witness: a whole-tree build left a node made from three remaining
\* indices, two inside and one outside, with a positive radius.
BulkPartitionStepWitness ==
    /\ WholeTreeRebuilt
    /\ \E n \in DOMAIN nodes :
        /\ Cardinality(Subtree(Self, n)) = 4
        /\ Cardinality(Below(Self, nodes[n].interior)) = 2
        /\ Cardinality(Below(Self, nodes[n].exterior)) = 1
        /\ nodes[n].radius > 0

\* v is d clamped into [r/2, r], the halving stated without a division.
ClampedInto(v, d, r) ==
    IF 2 * d < r THEN 2 * v = r ELSE IF d > r THEN v = r ELSE v = d

\* Node n of tree t was built from exactly one remaining index and its sole
\* child's radius is the pairwise distance clamped into [radius/2, radius],
\* the radius being the node's own after the build or, failing that, the one
\* it had before (`prior`).
SoleChildClamped(t, n, prior) ==
    Cardinality(Subtree(t, n)) = 2 =>
        \A c \in Subtree(t, n) \ {n} :
            \/ ClampedInto(t.nodes[c].radius, CenterDistance(t, n, c),
                           t.nodes[n].radius)
            \/ ClampedInto(t.nodes[c].radius, CenterDistance(t, n, c), prior)

\* C28 (as claimed): wherever the bulk build reaches a node with exactly one
\* remaining index (in bulk_insert and update_metric, in the rebuild of a
\* remove, in the rebuild of a subtree by an insert's rebalance) the sole
\* child's radius is the pairwise distance between node and child clamped
\* into [node.radius/2, node.radius].
SoleChildRadiusClamped ==
    [][/\ (last'.status = "ok" /\ last'.op \in {"bulk_insert", "update_metric"}) =>
            \A n \in DOMAIN nodes' : SoleChildClamped(Self', n, 0)
       /\ (last'.status = "ok" /\ last'.op = "remove" /\ last'.ret # <<>>) =>
            \A n \in DOMAIN nodes' :
                SoleChildClamped(Self', n, nodes[n].radius)
       /\ last'.op = "insert" =>
            \A s \in InsertSteps(Self, last'.arg) :
                RebalanceRebuilds(s.before, s.node) =>
                    \A n \in Subtree(s.after, s.node) :
                        SoleChildClamped(s.after, n, s.before.nodes[n].radius)]_vars

\* C28, what the one-index case does: after bulk_insert and update_metric a
\* node built from one remaining index has the pairwise distance as its own
\* radius, and its sole child the radius 0.0 of Node::new_leaf.
SoleChildRadiusUntouched ==
    (last.status = "ok" /\ last.op \in {"bulk_insert", "update_metric"}) =>
        \A n \in DOMAIN nodes :
            Cardinality(Subtree(Self, n)) = 2 =>
                /\ nodes[n].interior = None
                /\ nodes[n].radius = CenterDistance(Self, n, nodes[n].exterior)
                /\ nodes[nodes[n].exterior].radius = 0

\* Node n of tree t, if built from exactly one remaining index, has that
\* element as its exterior child and a leaf of height 0, no interior child,
\* height 1, and is the child's parent.
OneChildCase(t, n) ==
    Cardinality(Subtree(t, n)) = 2 =>
        \A c \in Subtree(t, n) \ {n} :
            /\ t.nodes[n].exterior = c
            /\ t.nodes[n].interior = None
            /\ t.nodes[n].height = 1
            /\ t.nodes[c].height = 0
            /\ t.nodes[c].interior = None
            /\ t.nodes[c].exterior = None
            /\ t.nodes[c].parent = n

\* C29: wherever the bulk build reaches a node with exactly one remaining
\* index (in a build of the whole tree or in the rebuild of a subtree by an
\* insert's rebalance) that element becomes the node's exterior child and a
\* leaf of height 0, the node has no interior child and height 1, and the
\* child's parent is the node.
BulkOneChildCase ==
    [][/\ WholeTreeRebuilt' =>
            \A n \in DOMAIN nodes' : OneChildCase(Self', n)
       /\ last'.op = "insert" =>
            \A s \in InsertSteps(Self, last'.arg) :
                RebalanceRebuilds(s.before, s.node) =>
                    \A n \in Subtree(s.after, s.node) :
                        OneChildCase(s.after, n)]_vars

\* C29 witness: a build of the whole tree left, below the root, a node with
\* a single child.
BulkOneChildCaseWitness ==
    /\ WholeTreeRebuilt
    /\ \E n \in DOMAIN nodes :
        /\ n # root
        /\ Cardinality(Subtree(Self, n)) = 2
        /\ nodes[n].exterior # None
        /\ nodes[nodes[n].exterior].parent = n

\* C30: an insert into a tree of two or more elements attaches the new leaf
\* exactly once, under a node p: as p's interior child if its distance d to
\* p's center is below p's radius and as p's exterior child otherwise, with
\* p as parent and d clamped into [p.radius/2, p.radius] as radius.
InsertAttachment ==
    [][(last'.op = "insert" /\ VecLen(data) >= 2) =>
        LET new_index == VecLen(data)
            attaching == {s \in InsertSteps(Self, last'.arg) : s.attaches}
        IN  /\ attaching # {}
            /\ \A s \in attaching :
                LET p == s.node
                    d == Distance(metric, Location(data[p]),
                                  Location(last'.arg))
                    r == nodes[p].radius
                    leaf == s.before.nodes[new_index]
                IN  /\ s.before.data[leaf.center] = last'.arg
                    /\ leaf.parent = p
                    /\ leaf.interior = None /\ leaf.exterior = None
                    /\ d < r =>
                        /\ s.before.nodes[p].interior = new_index
                        /\ s.before.nodes[p].exterior = nodes[p].exterior
                    /\ d >= r =>
                        /\ s.before.nodes[p].exterior = new_index
                        /\ s.before.nodes[p].interior = nodes[p].interior
                    /\ ClampedInto(leaf.radius, d, r)
                    /\ \A a \in attaching : a.node = p]_vars

\* C30 witness: an insert into a tree of two or more elements has returned,
\* the new leaf is the interior child of its parent and its radius is half
\* the parent's, the distance having been below that.
InsertAttachmentWitness ==
    /\ last.op = "insert" /\ last.status = "ok" /\ last.before >= 2
    /\ VecLen(data) = last.before + 1
    /\ LET leaf == nodes[last.before]
       IN  /\ leaf.parent # None
           /\ nodes[leaf.parent].interior = last.before
           /\ 2 * leaf.radius = nodes[leaf.parent].radius
           /\ leaf.radius > 0
           /\ 2 * Distance(metric, Location(data[leaf.parent]),
                           Location(data[last.before]))
                < nodes[leaf.parent].radius

\* C31: insert into an empty tree leaves a single root leaf (index 0, height
\* 0, no parent, no children); insert of v into a one-element tree sets the
\* root's radius to distance(root, v)/2 and attaches v as the root's exterior
\* child with root height 1, a v equal to the root's element included.
SmallTreeInsert ==
    [][last'.op = "insert" =>
        /\ VecLen(data) = 0 =>
            /\ root' = 0
            /\ data' = VecPush(EmptyVec, last'.arg)
            /\ DOMAIN nodes' = {0}
            /\ nodes'[0].center = 0
            /\ nodes'[0].height = 0
            /\ nodes'[0].parent = None
            /\ nodes'[0].interior = None
            /\ nodes'[0].exterior = None
        /\ VecLen(data) = 1 =>
            /\ root' = 0
            /\ data' = VecPush(data, last'.arg)
            /\ DOMAIN nodes' = {0, 1}
            /\ 2 * nodes'[0].radius =
                 Distance(metric, Location(data[0]), Location(last'.arg))
            /\ nodes'[0].exterior = 1
            /\ nodes'[0].interior = None
            /\ nodes'[0].height = 1
            /\ nodes'[0].parent = None
            /\ nodes'[1].center = 1
            /\ nodes'[1].parent = 0
            /\ nodes'[1].height = 0
            /\ nodes'[1].interior = None
            /\ nodes'[1].exterior = None]_vars

\* C31 witness: an insert into a one-element tree of an element equal to the
\* root's has returned, and the root has it as exterior child at radius 0.
SmallTreeInsertWitness ==
    /\ last.op = "insert" /\ last.status = "ok" /\ last.before = 1
    /\ VecLen(data) = 2
    /\ data[1] = data[0]
    /\ nodes[0].exterior = 1
    /\ nodes[0].radius = 0

\* C31 witness, the other case: an insert of a different element into a
\* one-element tree has returned, the root's radius half their distance.
SmallTreeInsertApart ==
    /\ last.op = "insert" /\ last.status = "ok" /\ last.before = 1
    /\ VecLen(data) = 2
    /\ nodes[0].radius > 0
    /\ 2 * nodes[0].radius = Distance(metric, Location(data[0]), Location(data[1]))

\* C32: every insert, with or without a rebuild of a subtree, increases
\* size() by exactly 1, stores the new element at index size() - 1, and
\* leaves every element stored before at the index it had.
InsertIndexStable ==
    [][last'.op = "insert" =>
        /\ Size(Self') = Size(Self) + 1
        /\ VecLen(data') = VecLen(data) + 1
        /\ data'[Size(Self') - 1] = last'.arg
        /\ \A i \in DOMAIN data : data'[i] = data[i]]_vars

\* C32 witness: an insert that rebuilt a subtree has returned, with elements
\* that differ stored before it.
InsertIndexStableWitness ==
    /\ last.op = "insert" /\ last.status = "ok" /\ last.index # None
    /\ VecLen(data) = last.before + 1
    /\ data[last.before] = last.arg
    /\ \E i, j \in 0..(last.before - 1) : data[i] # data[j]

\* The storage indices of v whose element has the location given.
IndicesAt(v, location) == {i \in DOMAIN v : Location(v[i]) = location}

\* C33: a remove of a location that m >= 2 stored elements have returns one
\* of them, an exact match at distance 0 from the location, takes exactly
\* that one out of the storage, and leaves m - 1 elements with the location.
RemoveOneOfDuplicates ==
    [][(last'.op = "remove"
        /\ Cardinality(IndicesAt(data, last'.arg)) >= 2) =>
        /\ last'.status = "ok"
        /\ last'.index \in IndicesAt(data, last'.arg)
        /\ Distance(metric, Location(data[last'.index]), last'.arg) = 0
        /\ last'.ret = <<data[last'.index]>>
        /\ VecLen(data') = VecLen(data) - 1
        /\ Cardinality(IndicesAt(data', last'.arg)) =
               Cardinality(IndicesAt(data, last'.arg)) - 1]_vars

\* C33 witness: a remove has returned an element, an element with the same
\* location is still stored, and so is one at another location.
RemoveOneOfDuplicatesWitness ==
    /\ last.op = "remove" /\ last.status = "ok"
    /\ IndicesAt(data, last.arg) # {}
    /\ IndicesAt(data, last.arg) # DOMAIN data
    /\ Size(Self) = last.before - 1

\* Tree t answers a following insert and a following nearest query as the
\* tree `fresh` does.
BehavesAs(t, fresh) ==
    /\ \A v \in Elements : Insert(t, v) = Insert(fresh, v)
    /\ \A q \in Points : NnDistances(t, q) = NnDistances(fresh, q)

\* C34: a remove that leaves exactly one element leaves node 0 a leaf
\* (height 0, radius 0, no children, no parent); a remove that leaves none
\* leaves both collections empty; either way a following insert or nearest
\* query behaves as on a tree freshly built over what is stored.
RemoveToTrivial ==
    [][(last'.op = "remove" /\ last'.status = "ok") =>
        /\ VecLen(data') = 1 =>
            /\ nodes' = VecPush(EmptyVec, NewLeaf(0, None))
            /\ root' = 0
            /\ \A fresh \in BulkInsert(metric', data') \cup
                            Insert(New(metric'), data'[0]) :
                BehavesAs(Self', fresh)
        /\ VecLen(data') = 0 =>
            /\ nodes' = EmptyVec
            /\ data' = EmptyVec
            /\ BehavesAs(Self', New(metric'))]_vars

\* C34 witness: a remove from a tree of two elements apart (the root's
\* radius was positive and it had a child) has returned and left one.
RemoveToTrivialWitness ==
    /\ last.op = "remove" /\ last.status = "ok" /\ last.before = 2
    /\ Size(Self) = 1
    /\ last.ret # <<data[0]>>
    /\ nodes[0].radius = 0
    /\ nodes[0].exterior = None

\* C34 witness, the other case: a remove has taken the only element.
RemoveToEmptyReached ==
    /\ last.op = "remove" /\ last.status = "ok" /\ last.before = 1
    /\ Size(Self) = 0
    /\ VecLen(nodes) = 0

\* The links into node n: the pairs of a node and a side whose child is n.
LinksInto(t, n) ==
    { <<p, "interior">> : p \in {q \in DOMAIN t.nodes : t.nodes[q].interior = n} }
    \cup
    { <<p, "exterior">> : p \in {q \in DOMAIN t.nodes : t.nodes[q].exterior = n} }

\* The nodes reached from the nodes of S over child links in at most k steps.
RECURSIVE ReachedFrom(_, _, _)
ReachedFrom(t, S, k) ==
    IF k = 0 THEN S
    ELSE ReachedFrom(t,
             S \cup ({t.nodes[n].interior : n \in S} \ {None})
               \cup ({t.nodes[n].exterior : n \in S} \ {None}),
             k - 1)

\* C35: in every state of a non-empty tree reached by bulk_insert, insert and
\* remove the nodes form one tree rooted at index 0: the root has no parent,
\* every other node is the interior or exterior child of exactly one node,
\* which its parent field names, every child and parent index is below
\* size(), and every node is reached from the root.
LinkConsistency ==
    Size(Self) > 0 =>
        /\ root = 0
        /\ nodes[root].parent = None
        /\ LinksInto(Self, root) = {}
        /\ \A n \in DOMAIN nodes :
            /\ nodes[n].interior \in (0..(Size(Self) - 1)) \cup {None}
            /\ nodes[n].exterior \in (0..(Size(Self) - 1)) \cup {None}
            /\ nodes[n].parent \in (0..(Size(Self) - 1)) \cup {None}
        /\ \A n \in DOMAIN nodes \ {root} :
            /\ Cardinality(LinksInto(Self, n)) = 1
            /\ \A l \in LinksInto(Self, n) : nodes[n].parent = l[1]
        /\ ReachedFrom(Self, {root}, Size(Self)) = 0..(Size(Self) - 1)

\* C35 witness: a tree of four that grew and shrank by insert and remove has
\* a node below the root with a child of its own.
LinkConsistencyWitness ==
    /\ built = "mixed" /\ last.op = "insert" /\ last.status = "ok"
    /\ Size(Self) = 4
    /\ \E n \in DOMAIN nodes \ {root} :
        /\ nodes[n].parent = root
        /\ \E c \in DOMAIN nodes : nodes[c].parent = n

\* The three items one next() call builds from outcome o, each as a pair of
\* storage index and distance. KnnIterator::next, KnnMutIterator::next and
\* KnnIndexIterator::next are the same statements up to the item returned,
\* over the same heaps built by the same new(): on one tree and query the
\* three go through the same iterator states and the same outcomes.
RefPair(t, o) == <<RefSlot(t, o), o.entry.min_distance>>
MutPair(t, o) == <<MutSlot(t, o), o.entry.min_distance>>
IndexPair(t, o) == IndexItem(o)

\* C36: on every tree and query and at every point of the iteration, the
\* item nn_dist_iter, nn_dist_iter_mut and nn_index_iter return next is the
\* same pair of storage index and distance, on the yield path and on the
\* drain path, and all three end together.
IteratorsAgree ==
    it # NoIter =>
        \A o \in KnnNext(Self, it) :
            o.path # "end" =>
                /\ RefPair(Self, o) = IndexPair(Self, o)
                /\ MutPair(Self, o) = IndexPair(Self, o)
                /\ RefSlot(Self, o) \in DOMAIN data

\* C36 witness: on a tree changed by insert and remove, items were returned
\* already and the next one comes by the yield path.
IteratorsAgreeWitness ==
    /\ it # NoIter /\ built = "mixed" /\ Size(Self) >= 3
    /\ yielded # <<>>
    /\ \E o \in KnnNext(Self, it) : o.path = "yield"

\* C36 witness, the other path: items were returned already and the next
\* one comes by the drain path.
IteratorsAgreeOnDrain ==
    /\ it # NoIter /\ built = "mixed" /\ Size(Self) >= 3
    /\ yielded # <<>>
    /\ \E o \in KnnNext(Self, it) : o.path = "drain"

\* floor(log2(n)) for n >= 1
RECURSIVE FloorLog2(_)
FloorLog2(n) == IF n <= 1 THEN 0 ELSE 1 + FloorLog2(n \div 2)

\* C37: for every batch of n >= 1 elements and every metric, the tree that
\* bulk_insert returns (update_metric's too, which is a bulk_insert) has a
\* root of height exactly floor(log2(n)), and at every node the numbers of
\* elements below the interior and below the exterior child differ by at
\* most 1.
BulkHeight ==
    (last.status = "ok" /\ last.op \in {"bulk_insert", "update_metric"}
     /\ Size(Self) >= 1) =>
        /\ nodes[root].height = FloorLog2(Size(Self))
        /\ \A n \in DOMAIN nodes :
            LET ni == Cardinality(Below(Self, nodes[n].interior))
                ne == Cardinality(Below(Self, nodes[n].exterior))
            IN  ni - ne <= 1 /\ ne - ni <= 1

\* C37 witness: bulk_insert of four elements has returned a tree of height
\* 2 whose root has two elements inside and one outside.
BulkHeightWitness ==
    /\ last.status = "ok" /\ last.op = "bulk_insert"
    /\ Size(Self) = 4
    /\ nodes[root].height = 2
    /\ Cardinality(Below(Self, nodes[root].interior)) = 2
    /\ Cardinality(Below(Self, nodes[root].exterior)) = 1

\* insert_root(node, value) returns within `fuel` nested calls: each call
\* either attaches the leaf or calls itself on one child.
RECURSIVE InsertRootReturns(_, _, _, _)
InsertRootReturns(t, node, value, fuel) ==
    LET distance ==
            Distance(t.metric,
                     Location(NodeIndexData(t, t.nodes[node].center)),
                     Location(value))
        child == IF distance < t.nodes[node].radius
                 THEN t.nodes[node].interior ELSE t.nodes[node].exterior
    IN  IF fuel = 0 THEN FALSE
        ELSE IF child = None THEN TRUE
        ELSE InsertRootReturns(t, child, value, fuel - 1)

\* The calls of bulk_build_indices that one call over m remaining indices
\* makes, itself included: one child for m = 1, otherwise the two chunks
\* less the center popped off each.
RECURSIVE BulkBuildCalls(_)
BulkBuildCalls(m) ==
    IF m = 0 THEN 1
    ELSE IF m = 1 THEN 1 + BulkBuildCalls(0)
    ELSE 1 + BulkBuildCalls(ChunkSize(m) - 1)
           + BulkBuildCalls(m - ChunkSize(m) - 1)

\* The activations of next() in the call with outcome o from iterator i: one
\* per prospect popped (each moves a node into yield_queue), and a last one
\* that found prospects empty when the call drained or ended.
NextCalls(i, o) ==
    LET pops == Len(o.it.yield_queue) + (IF o.path = "end" THEN 0 ELSE 1)
                - Len(i.yield_queue)
    IN  IF o.path = "yield" THEN pops ELSE pops + 1

\* C38: every operation returns after finitely many steps. In every state
\* in which the tree can be changed (no iterator borrows it): an insert of
\* any element descends through at most size() nested insert_root calls and
\* has an outcome; a bulk build over m remaining indices (bulk_insert, the
\* rebuild of remove and of rebalance) makes exactly m + 1 calls; a remove
\* of a stored location has an outcome and returns. In every state of an
\* iteration: a next() call has an outcome after at most one activation per
\* node not yet popped, plus one.
OperationsTerminate ==
    /\ \A m \in 0..MaxDeep : BulkBuildCalls(m) = m + 1
    /\ it = NoIter =>
        /\ \A v \in Elements :
            /\ Size(Self) >= 1 => InsertRootReturns(Self, root, v, Size(Self))
            /\ Insert(Self, v) # {}
        /\ Size(Self) >= 1 => BulkInsert(metric, data) # {}
        /\ \A p \in Points :
            IndicesAt(data, p) # {} =>
                /\ Remove(Self, p) # {}
                /\ \A r \in Remove(Self, p) : r.status = "ok"
    /\ it # NoIter =>
        /\ KnnNext(Self, it) # {}
        /\ \A o \in KnnNext(Self, it) :
            /\ NextCalls(it, o) >= 1
            /\ NextCalls(it, o) <=
                 Size(Self) - Len(it.yield_queue) - Len(yielded) + 1

\* C38 witness: on a tree of four, a next() call is about to recurse (three
\* activations or more) and an insert would descend two levels or more.
OperationsTerminateWitness ==
    /\ Size(Self) = 4
    /\ it # NoIter
    /\ \E o \in KnnNext(Self, it) : NextCalls(it, o) >= 3
    /\ \E v \in Elements :
        /\ ~InsertRootReturns(Self, root, v, 2)
        /\ InsertRootReturns(Self, root, v, Size(Self))

BisectionStoppedEarly ==
    /\ motion.op = "check_motion"
    /\ ValidSegmentCount(motion.s1, motion.s2) = 4
    /\ CheckMotionSteps(checker, motion.s1, motion.s2).entered
    /\ Len(CheckMotionSteps(checker, motion.s1, motion.s2).tested) < 3
    /\ ~motion.result

====
